---- MODULE Spec2Model ----
(***************************************************************************)
(* Dual-arm trajectory replay add-on                                       *)
(* (src/dual_joint_trajectory_replay_addon.py): the trajectory parser,     *)
(* the scrub sampler, the joint-binding cache and the load / clear /       *)
(* scrub operators.                                                        *)
(*                                                                         *)
(* Numbers.  Python floats are modelled as exact rationals <<n, d>> in     *)
(* lowest terms (d > 0); numeric tokens of a file are finite decimals.     *)
(* Time is counted in ticks.  The time axis is scaled so that the code's   *)
(* two thresholds are small integers that keep their ratio:                *)
(*   1e-12 (dedup / degenerate interval)  = TOL         ticks              *)
(*   1e-9  (minimum scrub duration)       = MinDuration ticks              *)
(* One second (the unit of the fallback range [0, 1] and of the times in   *)
(* the files) is Second ticks, a span well above both thresholds.          *)
(***************************************************************************)
EXTENDS Integers, Sequences, FiniteSets, TLC

VARIABLES
    TRAJ,       \* module globals TRAJ_A / TRAJ_B, indexed by arm
    ARMREFS,    \* module global ARMREFS: per-arm cache of joint handles
    scene,      \* context.scene: the add-on's scene properties
    objects,    \* bpy.data.objects: the rig (name -> armature / bone state)
    report,     \* what the last operator reported and returned
    resolved,   \* the arms whose resolution loop ran during the last event
    pc,         \* position of the stand-alone parse/sample harness
    p_in,       \* harness: the file and arguments handed to parse_single_arm
    p_out,      \* harness: what parse_single_arm returned or raised
    p_q,        \* harness: the query time handed to sample_q
    p_s,        \* harness: the pose sample_q returned
    selected_objects,   \* bpy.context.selected_objects when the exporter runs
    scene_file,         \* the .scene file next to the blend file
    entries,            \* what _parse_scene_file returned to the import operator
    created             \* the cubes the import operator created

vars == <<TRAJ, ARMREFS, scene, objects, report, resolved, pc, p_in, p_out, p_q, p_s,
          selected_objects, scene_file, entries, created>>

\* the state of the scene exporter and importer
moveit == <<selected_objects, scene_file, entries, created>>

(***************************************************************************)
(* Bounds of the model                                                     *)
(***************************************************************************)
MaxLines == 3       \* longest file, in lines, the parse harness enumerates
ScrubSteps == 2     \* the scrub slider moves in steps of 1/ScrubSteps
MaxEdited == 1      \* changes the user makes to the rig setup in a session
MaxSelected == 2    \* objects selected when the scene exporter runs

(***************************************************************************)
(* Program constants                                                       *)
(***************************************************************************)
TOL == 2            \* 1e-12, in ticks
MinDuration == 2000 \* 1e-9, in ticks
NFields == 15       \* t + 7 pos + 7 vel
PoseEnd == 8        \* qpos = vals[1:8]
PiNum == 22         \* math.radians: pi taken as PiNum / PiDen
PiDen == 7
Second == 2 * MinDuration   \* 1.0, in ticks

(***************************************************************************)
(* Exact rational arithmetic standing for float arithmetic                 *)
(***************************************************************************)
Abs(n) == IF n < 0 THEN -n ELSE n

RECURSIVE GCD(_, _)
GCD(a, b) == IF b = 0 THEN a ELSE GCD(b, a % b)

Norm(n, d) ==
    LET g == GCD(Abs(n), d)
    IN  <<n \div g, d \div g>>

R(n) == <<n, 1>>

RAdd(x, y) ==
    LET g == GCD(x[2], y[2])
    IN  Norm(x[1] * (y[2] \div g) + y[1] * (x[2] \div g), (x[2] \div g) * y[2])

RNeg(x) == <<-x[1], x[2]>>
RSub(x, y) == RAdd(x, RNeg(y))

RMul(x, y) ==
    LET g1 == GCD(Abs(x[1]), y[2])
        g2 == GCD(Abs(y[1]), x[2])
        a  == IF g1 = 0 THEN 1 ELSE g1
        b  == IF g2 = 0 THEN 1 ELSE g2
    IN  Norm((x[1] \div a) * (y[1] \div b), (x[2] \div b) * (y[2] \div a))

\* x / y for y > 0
RDiv(x, y) == RMul(x, <<y[2], y[1]>>)

RLt(x, y) == x[1] * y[2] < y[1] * x[2]
RLe(x, y) == x[1] * y[2] <= y[1] * x[2]
RAbs(x) == <<Abs(x[1]), x[2]>>
RMax(x, y) == IF RLt(x, y) THEN y ELSE x
RMin(x, y) == IF RLt(y, x) THEN y ELSE x

(***************************************************************************)
(* Text files.  A line is blank, a '#' comment, or text: fields joined by  *)
(* one separator character.  A field is a numeric literal <<"num", v>> or  *)
(* some other word <<"str", 0>>.                                           *)
(***************************************************************************)
Num(v) == <<"num", v>>
Word == <<"str", 0>>

Blank == [kind |-> "blank", sep |-> " ", fields |-> <<>>]
Comment == [kind |-> "comment", sep |-> " ", fields |-> <<Word>>]
Text(sep, fields) == [kind |-> "text", sep |-> sep, fields |-> fields]

\* a row "t p+1 .. p+7 0 .. 0" of n fields (n >= 8)
RowFields(t, p, n) ==
    [k \in 1..n |-> IF k = 1 THEN Num(t)
                    ELSE IF k <= PoseEnd THEN Num(p + k - 1)
                    ELSE Num(0)]

\* s.split(",") / s.split("\t") / s.split() on a stripped non-empty line:
\* splitting on the line's own separator yields its fields (split() splits
\* at tabs as well as blanks); splitting on another one leaves the whole
\* line as one piece, which is not a numeric literal once it holds a
\* separator.
SplitOn(ch, line) ==
    IF Len(line.fields) = 1 THEN line.fields
    ELSE IF ch = line.sep THEN line.fields
    ELSE IF ch = " " /\ line.sep = "\t" THEN line.fields
    ELSE <<Word>>

Split(delim_mode, line) ==
    IF delim_mode = "COMMA" THEN SplitOn(",", line)
    ELSE IF delim_mode = "TAB" THEN SplitOn("\t", line)
    ELSE IF delim_mode = "SPACE" THEN SplitOn(" ", line)
    ELSE IF Len(line.fields) > 1 /\ line.sep = "," THEN SplitOn(",", line)
    ELSE IF Len(line.fields) > 1 /\ line.sep = "\t" THEN SplitOn("\t", line)
    ELSE SplitOn(" ", line)

\* [float(x) for x in parts] raises ValueError iff some part is not numeric
AllNumeric(parts) == \A k \in 1..Len(parts) : parts[k][1] = "num"
Floats(parts) == [k \in 1..Len(parts) |-> R(parts[k][2])]

\* math.radians(v)
Radians(v) == RMul(v, <<PiNum, PiDen * 180>>)

(***************************************************************************)
(* parse_single_arm                                                        *)
(***************************************************************************)
Raise(msg, got, at) ==
    [ok |-> FALSE, err |-> msg, got |-> got, line |-> at, t |-> <<>>, q |-> <<>>]
Return(times, joints) ==
    [ok |-> TRUE, err |-> "", got |-> 0, line |-> 0, t |-> times, q |-> joints]

\* faulty variant: an unstable insertion: a pair goes before the pairs of equal key
RECURSIVE InsertPair_Unstable(_, _)
InsertPair_Unstable(sorted, p) ==
    IF sorted = <<>> THEN <<p>>
    ELSE IF RLt(sorted[Len(sorted)][1], p[1]) THEN Append(sorted, p)
    ELSE Append(InsertPair_Unstable(SubSeq(sorted, 1, Len(sorted) - 1), p),
                sorted[Len(sorted)])

\* sorted(pairs, key=lambda x: x[0]): a stable sort; each pair is put after
\* every pair whose key is not greater.
RECURSIVE InsertPair(_, _)
InsertPair(sorted, p) ==
    IF sorted = <<>> THEN <<p>>
    ELSE IF RLe(sorted[Len(sorted)][1], p[1]) THEN Append(sorted, p)
    ELSE Append(InsertPair(SubSeq(sorted, 1, Len(sorted) - 1), p), sorted[Len(sorted)])

RECURSIVE SortPairs(_, _, _)
SortPairs(pairs, k, acc) ==
    IF k > Len(pairs) THEN acc
    ELSE SortPairs(pairs, k + 1, InsertPair(acc, pairs[k]))

\* faulty variant: the dedup loop without the merge branch
RECURSIVE Dedup_KeepAll(_, _, _, _)
Dedup_KeepAll(pairs, k, times, joints) ==
    IF k > Len(pairs) THEN Return(times, joints)
    ELSE Dedup_KeepAll(pairs, k + 1, Append(times, pairs[k][1]),
                       Append(joints, pairs[k][2]))

\* the dedup loop over the sorted pairs
RECURSIVE Dedup(_, _, _, _)
Dedup(pairs, k, times, joints) ==
    IF k > Len(pairs) THEN Return(times, joints)
    ELSE LET t == pairs[k][1]
             q == pairs[k][2]
             n == Len(times)
         IN  IF n > 0 /\ RLt(RAbs(RSub(t, times[n])), R(TOL))
             THEN Dedup(pairs, k + 1, [times EXCEPT ![n] = t], [joints EXCEPT ![n] = q])
             ELSE Dedup(pairs, k + 1, Append(times, t), Append(joints, q))

\* the loop over the lines of the file
RECURSIVE ReadLines(_, _, _, _, _, _, _, _)
ReadLines(lines, k, delim_mode, time_unit, has_header, degrees, header_skipped, pairs) ==
    IF k > Len(lines) THEN
        IF pairs = <<>> THEN Raise("No valid data rows found.", 0, 0)
        ELSE Dedup(SortPairs(pairs, 1, <<>>), 1, <<>>, <<>>)
    ELSE LET line == lines[k]
             parts == Split(delim_mode, line)
         IN  IF line.kind = "blank" \/ line.kind = "comment" THEN
                 ReadLines(lines, k + 1, delim_mode, time_unit, has_header, degrees,
                           header_skipped, pairs)
             ELSE IF has_header /\ ~header_skipped THEN
                 ReadLines(lines, k + 1, delim_mode, time_unit, has_header, degrees,
                           TRUE, pairs)
             ELSE IF ~AllNumeric(parts) THEN Raise("Non-numeric data in line", 0, k)
             ELSE IF Len(parts) < NFields THEN
                 Raise("Expected 15 numbers (t + 7 pos + 7 vel). Got", Len(parts), k)
             ELSE LET vals == Floats(parts)
                      t    == RMul(vals[1], IF time_unit = "MILLISECONDS"
                                            THEN <<1, 1000>> ELSE R(1))
                      qpos == SubSeq(vals, 2, PoseEnd)
                      q    == IF degrees
                              THEN [j \in 1..Len(qpos) |-> Radians(qpos[j])]
                              ELSE qpos
                  IN  ReadLines(lines, k + 1, delim_mode, time_unit, has_header,
                                degrees, header_skipped, Append(pairs, <<t, q>>))

\* faulty variant: a lenient parser: malformed lines are dropped, not reported
parse_single_arm_Lenient(file, delim_mode, time_unit, has_header, degrees) ==
    LET wellFormed(line) ==
            \/ line.kind # "text"
            \/ /\ AllNumeric(Split(delim_mode, line))
               /\ Len(Split(delim_mode, line)) >= NFields
    IN  IF ~file.exists THEN Raise("File not found", 0, 0)
        ELSE ReadLines(SelectSeq(file.lines, wellFormed), 1, delim_mode, time_unit,
                       FALSE, degrees, FALSE, <<>>)

\* faulty variant: the header is the first line of the file, whatever it is
parse_single_arm_FirstLineHeader(file, delim_mode, time_unit, has_header, degrees) ==
    IF ~file.exists THEN Raise("File not found", 0, 0)
    ELSE IF has_header /\ file.lines # <<>>
    THEN ReadLines(Tail(file.lines), 1, delim_mode, time_unit, FALSE, degrees,
                   FALSE, <<>>)
    ELSE ReadLines(file.lines, 1, delim_mode, time_unit, FALSE, degrees, FALSE, <<>>)

\* file: [exists |-> BOOLEAN, lines |-> sequence of lines]
parse_single_arm(file, delim_mode, time_unit, has_header, degrees) ==
    IF ~file.exists THEN Raise("File not found", 0, 0)
    ELSE ReadLines(file.lines, 1, delim_mode, time_unit, has_header, degrees,
                   FALSE, <<>>)

(***************************************************************************)
(* sample_q                                                                *)
(***************************************************************************)
\* faulty variant: bisect_right, the insertion point after equal entries
RECURSIVE bisect_left_Right(_, _, _, _)
bisect_left_Right(a, x, lo, hi) ==
    IF lo < hi
    THEN LET mid == (lo + hi) \div 2
         IN  IF RLt(x, a[mid + 1]) THEN bisect_left_Right(a, x, lo, mid)
             ELSE bisect_left_Right(a, x, mid + 1, hi)
    ELSE lo

\* bisect.bisect_left(a, x) with 0-based lo, hi
RECURSIVE bisect_left(_, _, _, _)
bisect_left(a, x, lo, hi) ==
    IF lo < hi
    THEN LET mid == (lo + hi) \div 2
         IN  IF RLt(a[mid + 1], x) THEN bisect_left(a, x, mid + 1, hi)
             ELSE bisect_left(a, x, lo, mid)
    ELSE lo

\* (1-r)*a + r*b
Lerp(r, a, b) == RAdd(RMul(RSub(R(1), r), a), RMul(r, b))

\* faulty variant: the right clamp returns the first pose
sample_q_ClampFirst(traj, t) ==
    LET ts == traj.t
        qs == traj.q
        n  == Len(ts)
    IN  IF RLe(t, ts[1]) THEN qs[1]
        ELSE IF RLe(ts[n], t) THEN qs[1]
        ELSE LET i  == bisect_left(ts, t, 0, n)
                 t0 == ts[i]
                 t1 == ts[i + 1]
                 q0 == qs[i]
                 q1 == qs[i + 1]
             IN  IF RLe(t1, RAdd(t0, R(TOL))) THEN q1
                 ELSE LET r == RDiv(RSub(t, t0), RSub(t1, t0))
                      IN  [k \in 1..(IF Len(q0) < Len(q1) THEN Len(q0) ELSE Len(q1))
                             |-> Lerp(r, q0[k], q1[k])]

sample_q(traj, t) ==
    LET ts == traj.t
        qs == traj.q
        n  == Len(ts)
    IN  IF RLe(t, ts[1]) THEN qs[1]
        ELSE IF RLe(ts[n], t) THEN qs[n]
        ELSE LET i  == bisect_left(ts, t, 0, n)
                 t0 == ts[i]
                 t1 == ts[i + 1]
                 q0 == qs[i]
                 q1 == qs[i + 1]
             IN  IF RLe(t1, RAdd(t0, R(TOL))) THEN q1
                 ELSE LET r == RDiv(RSub(t, t0), RSub(t1, t0))
                      IN  [k \in 1..(IF Len(q0) < Len(q1) THEN Len(q0) ELSE Len(q1))
                             |-> Lerp(r, q0[k], q1[k])]

(***************************************************************************)
(* The scene, the rig and the files on disk                                *)
(***************************************************************************)
Arms == {"A", "B"}

\* TRAJ_A = None / ARMREFS[which] = None
NoTraj == [loaded |-> FALSE, t |-> <<>>, q |-> <<>>]
NoRefs == [cached |-> FALSE, key |-> <<>>, refs |-> <<>>]
\* the (None, None) placeholder of an unresolved joint
NoneRef == [ok |-> FALSE, name |-> <<>>]

\* register(): the property defaults
SceneDefaults ==
    [sa_base_name   |-> "fer_link",
     sa_bone_name   |-> "Bone",
     sa_start_index |-> 0,
     sa_joints      |-> 7,
     sa_suffix_a    |-> ".001",
     sa_suffix_b    |-> ".002",
     sa_scrub       |-> R(0),
     sa_time        |-> R(0)]

\* bpy.data.objects of the blend file: fer_link1..8 of both arms; link 3 of
\* the second arm is a mesh, link 6 of the second arm has no bone "Bone".
ObjName(base_name, index, suffix) == <<base_name, index, suffix>>

RigNames == {ObjName("fer_link", i, s) : i \in 1..8, s \in {".001", ".002"}}

RigObject(name) ==
    [type  |-> IF name = ObjName("fer_link", 3, ".002") THEN "MESH" ELSE "ARMATURE",
     bone  |-> IF name = ObjName("fer_link", 6, ".002") THEN "Other" ELSE "Bone",
     rotation_mode |-> "QUATERNION",
     rotation_euler_y |-> R(0),
     animation_data |-> FALSE]

\* the trajectory files the operators can be pointed at
Row(t, p) == Text(" ", RowFields(t, p, NFields))
HeaderLine == Text(" ", [k \in 1..NFields |-> Word])

DiskFiles ==
    [name \in {"a.txt", "b.txt", "one.txt", "word.txt", "short.txt", "empty.txt"} |->
        CASE name = "a.txt"     -> <<Row(0, 10), Row(Second, 20)>>
          [] name = "b.txt"     -> <<Row(3 * Second, 40), Comment, Row(2 * Second, 30)>>
          [] name = "one.txt"   -> <<Row(Second, 50)>>
          [] name = "word.txt"  -> <<Row(0, 10), HeaderLine>>
          [] name = "short.txt" -> <<Row(0, 10), Text(" ", RowFields(1, 20, NFields - 1))>>
          [] name = "empty.txt" -> <<Comment, Blank>>]

\* os.path.join(folder, filename): a path is the pair; os.path.isfile
Join(folder, filename) == <<folder, filename>>
isfile(path) == path[2] \in DOMAIN DiskFiles
FileAt(path) ==
    IF isfile(path) THEN [exists |-> TRUE, lines |-> DiskFiles[path[2]]]
    ELSE [exists |-> FALSE, lines |-> <<>>]

FileNames == DOMAIN DiskFiles \cup {"", "missing.txt"}
ScrubValues == {Norm(k, ScrubSteps) : k \in 0..ScrubSteps} \cup {<<1, 2>>}

\* (da_delim, sa_time_unit, sa_has_header, sa_degrees) as set in the panel
PanelFormats == {<<"AUTO", "SECONDS", FALSE, FALSE>>}

(***************************************************************************)
(* get_joint_bone / ensure_arm_refs                                        *)
(***************************************************************************)
\* [obj, bone, err, objs]: objs is bpy.data.objects after the call
get_joint_bone(objs, base_name, index, suffix, bone_name) ==
    LET obj_name == ObjName(base_name, index, suffix)
    IN  IF obj_name \notin DOMAIN objs
        THEN [obj |-> FALSE, bone |-> FALSE, err |-> "not found", objs |-> objs]
        ELSE IF objs[obj_name].type # "ARMATURE"
        THEN [obj |-> TRUE, bone |-> FALSE, err |-> "not an armature", objs |-> objs]
        ELSE IF objs[obj_name].bone # bone_name
        THEN [obj |-> TRUE, bone |-> FALSE, err |-> "no pose bone", objs |-> objs]
        ELSE [obj |-> TRUE, bone |-> TRUE, err |-> "",
              objs |-> [objs EXCEPT ![obj_name].rotation_mode = "XYZ"]]

Suffix(scn, which) == IF which = "A" THEN scn.sa_suffix_a ELSE scn.sa_suffix_b

RefsKey(scn, which) ==
    <<scn.sa_base_name, scn.sa_start_index, scn.sa_joints, Suffix(scn, which),
      scn.sa_bone_name>>

\* faulty variant: an unresolvable joint leaves no entry in the list
RECURSIVE ResolveRefs_SkipUnresolved(_, _, _, _, _)
ResolveRefs_SkipUnresolved(scn, which, j, refs, objs) ==
    IF j >= scn.sa_start_index + scn.sa_joints THEN [refs |-> refs, objs |-> objs]
    ELSE LET g == get_joint_bone(objs, scn.sa_base_name, j + 1, Suffix(scn, which),
                                 scn.sa_bone_name)
             name == ObjName(scn.sa_base_name, j + 1, Suffix(scn, which))
         IN  IF g.err # ""
             THEN ResolveRefs_SkipUnresolved(scn, which, j + 1, refs, g.objs)
             ELSE ResolveRefs_SkipUnresolved(scn, which, j + 1,
                              Append(refs, [ok |-> TRUE, name |-> name]),
                              [g.objs EXCEPT ![name].animation_data = TRUE])

\* the resolution loop: j runs over range(start, start + joints)
RECURSIVE ResolveRefs(_, _, _, _, _)
ResolveRefs(scn, which, j, refs, objs) ==
    IF j >= scn.sa_start_index + scn.sa_joints THEN [refs |-> refs, objs |-> objs]
    ELSE LET g == get_joint_bone(objs, scn.sa_base_name, j + 1, Suffix(scn, which),
                                 scn.sa_bone_name)
             name == ObjName(scn.sa_base_name, j + 1, Suffix(scn, which))
         IN  IF g.err # ""
             THEN ResolveRefs(scn, which, j + 1, Append(refs, NoneRef), g.objs)
             ELSE ResolveRefs(scn, which, j + 1,
                              Append(refs, [ok |-> TRUE, name |-> name]),
                              [g.objs EXCEPT ![name].animation_data = TRUE])

\* faulty variant: no memoization, every call resolves
ensure_arm_refs_NoMemo(scn, which, cache, objs) ==
    LET key == RefsKey(scn, which)
        res == ResolveRefs(scn, which, scn.sa_start_index, <<>>, objs)
    IN  [refs  |-> res.refs,
         cache |-> [cache EXCEPT ![which] =
                       [cached |-> TRUE, key |-> key, refs |-> res.refs]],
         objs  |-> res.objs,
         resolved |-> TRUE]

\* faulty variant: the cached list is reused whatever its key
ensure_arm_refs_KeepStale(scn, which, cache, objs) ==
    LET key == RefsKey(scn, which)
        cached == cache[which]
    IN  IF cached.cached
        THEN [refs |-> cached.refs, cache |-> cache, objs |-> objs, resolved |-> FALSE]
        ELSE LET res == ResolveRefs(scn, which, scn.sa_start_index, <<>>, objs)
             IN  [refs  |-> res.refs,
                  cache |-> [cache EXCEPT ![which] =
                                [cached |-> TRUE, key |-> key, refs |-> res.refs]],
                  objs  |-> res.objs,
                  resolved |-> TRUE]

\* [refs, cache, objs, resolved]: the list returned, ARMREFS and the rig after
\* the call, and whether the resolution loop ran
ensure_arm_refs(scn, which, cache, objs) ==
    LET key == RefsKey(scn, which)
        cached == cache[which]
    IN  IF cached.cached /\ cached.key = key
        THEN [refs |-> cached.refs, cache |-> cache, objs |-> objs, resolved |-> FALSE]
        ELSE LET res == ResolveRefs(scn, which, scn.sa_start_index, <<>>, objs)
             IN  [refs  |-> res.refs,
                  cache |-> [cache EXCEPT ![which] =
                                [cached |-> TRUE, key |-> key, refs |-> res.refs]],
                  objs  |-> res.objs,
                  resolved |-> TRUE]

(***************************************************************************)
(* _global_time_range / apply_pose_from_scrub                              *)
(***************************************************************************)
Loaded(trajs) == {a \in Arms : trajs[a].loaded}

RECURSIVE MinOf(_)
MinOf(S) == LET x == CHOOSE y \in S : TRUE
            IN  IF S = {x} THEN x ELSE RMin(x, MinOf(S \ {x}))
RECURSIVE MaxOf(_)
MaxOf(S) == LET x == CHOOSE y \in S : TRUE
            IN  IF S = {x} THEN x ELSE RMax(x, MaxOf(S \ {x}))

\* faulty variant: only the first loaded arm contributes to the range
_global_time_range_FirstArm(trajs) ==
    IF trajs["A"].loaded THEN <<trajs["A"].t[1], trajs["A"].t[Len(trajs["A"].t)]>>
    ELSE IF trajs["B"].loaded THEN <<trajs["B"].t[1], trajs["B"].t[Len(trajs["B"].t)]>>
    ELSE <<R(0), R(Second)>>

_global_time_range(trajs) ==
    LET tmins == {trajs[a].t[1] : a \in Loaded(trajs)}
        tmaxs == {trajs[a].t[Len(trajs[a].t)] : a \in Loaded(trajs)}
    IN  IF tmins = {} THEN <<R(0), R(Second)>>
        ELSE <<MinOf(tmins), MaxOf(tmaxs)>>

\* faulty variant: the duration is not floored at 1e-9
ScrubTime_NoFloor(trajs, scrub) ==
    LET rng == _global_time_range(trajs)
    IN  RAdd(rng[1], RMul(scrub, RSub(rng[2], rng[1])))

\* t0, t1 = _global_time_range(); duration = max(t1 - t0, 1e-9);
\* t = t0 + scn.sa_scrub * duration
ScrubTime(trajs, scrub) ==
    LET rng == _global_time_range(trajs)
        duration == RMax(RSub(rng[2], rng[1]), R(MinDuration))
    IN  RAdd(rng[1], RMul(scrub, duration))

\* for j, (obj, bone) in enumerate(refs[:len(q)]):
\*     if obj and bone: bone.rotation_euler[1] = q[j]
\* A handle whose object has been removed from bpy.data.objects since the
\* resolution is a dead reference: using it raises ReferenceError, which ends
\* the loop.  [objs, raised]: the rig after the loop, and whether it raised.
RECURSIVE AssignJoints(_, _, _, _)
AssignJoints(refs, q, j, objs) ==
    IF j > Len(refs) \/ j > Len(q) THEN [objs |-> objs, raised |-> FALSE]
    ELSE IF ~refs[j].ok THEN AssignJoints(refs, q, j + 1, objs)
    ELSE IF refs[j].name \notin DOMAIN objs THEN [objs |-> objs, raised |-> TRUE]
    ELSE AssignJoints(refs, q, j + 1,
                      [objs EXCEPT ![refs[j].name].rotation_euler_y = q[j]])

\* faulty variant: each arm is sampled at the scrub fraction of its own span
ApplyArm_OwnSpan(trajs, scn, which, t, st) ==
    IF st.raised \/ ~trajs[which].loaded THEN st
    ELSE LET ts  == trajs[which].t
             own == RAdd(ts[1], RMul(scn.sa_scrub, RSub(ts[Len(ts)], ts[1])))
             q   == sample_q(trajs[which], own)
             e   == ensure_arm_refs(scn, which, st.cache, st.objs)
             a   == AssignJoints(e.refs, q, 1, e.objs)
         IN  [cache |-> e.cache, objs |-> a.objs,
              resolved |-> IF e.resolved THEN st.resolved \cup {which} ELSE st.resolved,
              raised |-> a.raised]

\* one "if TRAJ_X:" block; st = [cache, objs, resolved, raised]; the block is
\* not reached once an exception is on its way out
ApplyArm(trajs, scn, which, t, st) ==
    IF st.raised \/ ~trajs[which].loaded THEN st
    ELSE LET q == sample_q(trajs[which], t)
             e == ensure_arm_refs(scn, which, st.cache, st.objs)
             a == AssignJoints(e.refs, q, 1, e.objs)
         IN  [cache |-> e.cache, objs |-> a.objs,
              resolved |-> IF e.resolved THEN st.resolved \cup {which} ELSE st.resolved,
              raised |-> a.raised]

\* [scene, cache, objs, resolved, raised] after the call
apply_pose_from_scrub(trajs, cache, scn, objs) ==
    LET t  == ScrubTime(trajs, scn.sa_scrub)
        s0 == [cache |-> cache, objs |-> objs, resolved |-> {}, raised |-> FALSE]
        sA == ApplyArm(trajs, scn, "A", t, s0)
        sB == ApplyArm(trajs, scn, "B", t, sA)
    IN  [scene |-> [scn EXCEPT !.sa_time = t], cache |-> sB.cache, objs |-> sB.objs,
         resolved |-> sB.resolved, raised |-> sB.raised]

(***************************************************************************)
(* The operators of the panel                                              *)
(***************************************************************************)
Folder(which) == IF which = "A" THEN "trajectories_leader" ELSE "trajectories_follower"

Reported(op, result, level, msg) ==
    [op |-> op, result |-> result, level |-> level, msg |-> msg]

\* parse_single_arm(path, scn.da_delim, scn.sa_time_unit, scn.sa_has_header,
\* scn.sa_degrees): a pure function of the file and the panel's format, its
\* results tabulated once for the paths the panel can name
LoadResult ==
    [path \in {Join(Folder(w), f) : w \in Arms, f \in FileNames \ {""}},
     fmt \in PanelFormats |->
        parse_single_arm(FileAt(path), fmt[1], fmt[2], fmt[3], fmt[4])]

\* faulty variant: the arm is reset before the file is parsed
Load_ResetFirst(which, filename, fmt) ==
    LET path == IF filename # "" THEN Join(Folder(which), filename) ELSE <<>>
        res  == LoadResult[path, fmt]
    IN  IF path = <<>> \/ ~res.ok
        THEN /\ report' = Reported(<<"load", which, filename>>, "CANCELLED", "ERROR",
                                   IF path = <<>> THEN "set folder and filename first"
                                   ELSE res.err)
             /\ TRAJ' = [TRAJ EXCEPT ![which] = NoTraj]
             /\ ARMREFS' = [ARMREFS EXCEPT ![which] = NoRefs]
             /\ resolved' = {}
             /\ UNCHANGED <<scene, objects>>
        ELSE LET trajs == [TRAJ EXCEPT ![which] =
                              [loaded |-> TRUE, t |-> res.t, q |-> res.q]]
                 cache == [ARMREFS EXCEPT ![which] = NoRefs]
             IN  \E ap \in {apply_pose_from_scrub(trajs, cache, scene, objects)} :
                 /\ TRAJ' = trajs
                 /\ ARMREFS' = ap.cache
                 /\ scene' = ap.scene
                 /\ objects' = ap.objs
                 /\ resolved' = ap.resolved
                 /\ report' = Reported(<<"load", which, filename>>, "FINISHED", "INFO", "samples")

\* SA_OT_load_a.execute / SA_OT_load_b.execute for arm `which`, with the
\* panel's filename and format properties as the user left them.  The call
\* of apply_pose_from_scrub stands outside the try block: what it raises
\* leaves execute as an exception, after TRAJ_X and ARMREFS were assigned.
Load(which, filename, fmt) ==
    LET path == IF filename # "" THEN Join(Folder(which), filename) ELSE <<>>
    IN  IF path = <<>>
        THEN /\ report' = Reported(<<"load", which, filename>>, "CANCELLED", "ERROR",
                                   "set folder and filename first")
             /\ resolved' = {}
             /\ UNCHANGED <<TRAJ, ARMREFS, scene, objects>>
        ELSE LET res == LoadResult[path, fmt]
             IN  IF ~res.ok
                 THEN /\ report' = Reported(<<"load", which, filename>>, "CANCELLED", "ERROR", res.err)
                      /\ resolved' = {}
                      /\ UNCHANGED <<TRAJ, ARMREFS, scene, objects>>
                 ELSE LET trajs == [TRAJ EXCEPT ![which] =
                                       [loaded |-> TRUE, t |-> res.t, q |-> res.q]]
                          cache == [ARMREFS EXCEPT ![which] = NoRefs]
                      IN  \E ap \in {apply_pose_from_scrub(trajs, cache, scene, objects)} :
                          /\ TRAJ' = trajs
                          /\ ARMREFS' = ap.cache
                          /\ scene' = ap.scene
                          /\ objects' = ap.objs
                          /\ resolved' = ap.resolved
                          /\ report' =
                                IF ap.raised
                                THEN Reported(<<"load", which, filename>>, "EXCEPTION",
                                              "ERROR", "ReferenceError")
                                ELSE Reported(<<"load", which, filename>>, "FINISHED",
                                              "INFO", "samples")

SA_OT_load_a ==
    /\ pc = "idle"
    /\ \E filename \in FileNames, fmt \in PanelFormats : Load("A", filename, fmt)
    /\ UNCHANGED <<pc, p_in, p_out, p_q, p_s, moveit>>

SA_OT_load_b ==
    /\ pc = "idle"
    /\ \E filename \in FileNames, fmt \in PanelFormats : Load("B", filename, fmt)
    /\ UNCHANGED <<pc, p_in, p_out, p_q, p_s, moveit>>

\* faulty variant: a clear re-runs the pose application
Clear_Reapply(which) ==
    LET trajs == [TRAJ EXCEPT ![which] = NoTraj]
        cache == [ARMREFS EXCEPT ![which] = NoRefs]
    IN  \E ap \in {apply_pose_from_scrub(trajs, cache, scene, objects)} :
        /\ TRAJ' = trajs
        /\ ARMREFS' = ap.cache
        /\ scene' = ap.scene
        /\ objects' = ap.objs
        /\ resolved' = ap.resolved
        /\ report' = Reported(<<"clear", which>>, "FINISHED", "INFO", "Cleared")

\* faulty variant: a clear empties the trajectory set, not one arm
Clear_Both(which) ==
    /\ TRAJ' = [a \in Arms |-> NoTraj]
    /\ ARMREFS' = [ARMREFS EXCEPT ![which] = NoRefs]
    /\ scene' = [scene EXCEPT !.sa_time = R(0)]
    /\ report' = Reported(<<"clear", which>>, "FINISHED", "INFO", "Cleared")
    /\ resolved' = {}
    /\ UNCHANGED objects

\* SA_OT_clear_a.execute / SA_OT_clear_b.execute
Clear(which) ==
    /\ TRAJ' = [TRAJ EXCEPT ![which] = NoTraj]
    /\ ARMREFS' = [ARMREFS EXCEPT ![which] = NoRefs]
    /\ scene' = [scene EXCEPT !.sa_time = R(0)]
    /\ report' = Reported(<<"clear", which>>, "FINISHED", "INFO", "Cleared")
    /\ resolved' = {}
    /\ UNCHANGED objects

SA_OT_clear_a ==
    /\ pc = "idle"
    /\ Clear("A")
    /\ UNCHANGED <<pc, p_in, p_out, p_q, p_s, moveit>>

SA_OT_clear_b ==
    /\ pc = "idle"
    /\ Clear("B")
    /\ UNCHANGED <<pc, p_in, p_out, p_q, p_s, moveit>>

\* faulty variant: the callback without its try block
ScrubUpdate_Propagate(f) ==
    \E ap \in {apply_pose_from_scrub(TRAJ, ARMREFS, [scene EXCEPT !.sa_scrub = f], objects)} :
        /\ scene' = ap.scene
        /\ ARMREFS' = ap.cache
        /\ objects' = ap.objs
        /\ resolved' = ap.resolved
        /\ report' = IF ap.raised
                     THEN Reported(<<"scrub">>, "EXCEPTION", "ERROR", "ReferenceError")
                     ELSE Reported(<<"scrub">>, "FINISHED", "INFO", "")
        /\ UNCHANGED TRAJ

\* sa_scrub has been set to f and its update callback runs:
\*     try: apply_pose_from_scrub(context)
\*     except Exception as e: print("[Dual] Scrub error:", e)
ScrubUpdate(f) ==
    \E ap \in {apply_pose_from_scrub(TRAJ, ARMREFS, [scene EXCEPT !.sa_scrub = f], objects)} :
        /\ scene' = ap.scene
        /\ ARMREFS' = ap.cache
        /\ objects' = ap.objs
        /\ resolved' = ap.resolved
        /\ report' = IF ap.raised
                     THEN Reported(<<"scrub">>, "FINISHED", "ERROR", "[Dual] Scrub error")
                     ELSE Reported(<<"scrub">>, "FINISHED", "INFO", "")
        /\ UNCHANGED TRAJ

\* the user moves the slider
_on_scrub_update ==
    /\ pc = "idle"
    /\ \E f \in ScrubValues : ScrubUpdate(f)
    /\ UNCHANGED <<pc, p_in, p_out, p_q, p_s, moveit>>

NoInput == [file |-> [exists |-> FALSE, lines |-> <<>>], delim_mode |-> "AUTO",
            time_unit |-> "SECONDS", has_header |-> FALSE, degrees |-> FALSE]

SceneInit ==
    /\ TRAJ = [a \in Arms |-> NoTraj]
    /\ ARMREFS = [a \in Arms |-> NoRefs]
    /\ scene = SceneDefaults
    /\ objects = [n \in RigNames |-> RigObject(n)]
    /\ report = Reported(<<"register">>, "FINISHED", "INFO", "")
    /\ resolved = {}
    /\ scene_file = [exists |-> FALSE, lines |-> <<>>]
    /\ entries = <<>>
    /\ created = <<>>

Init ==
    /\ SceneInit
    /\ selected_objects = <<>>
    /\ pc = "idle"
    /\ p_in = NoInput
    /\ p_out = Raise("", 0, 0)
    /\ p_q = R(0)
    /\ p_s = <<>>

Next ==
    \/ SA_OT_load_a
    \/ SA_OT_load_b
    \/ SA_OT_clear_a
    \/ SA_OT_clear_b
    \/ _on_scrub_update

Spec == Init /\ [][Next]_vars

(***************************************************************************)
(* The panel with its mapping fields: the same operators, the user also    *)
(* editing the binding configuration (base name, bone name, start index,   *)
(* joint count, the two suffixes) and deleting an object of the rig.       *)
(* Operators are named by their bl_idname, properties by their name.       *)
(***************************************************************************)
\* the files and slider positions used in this session
RigFileNames == {"a.txt", "one.txt"}
RigScrubValues == {R(1)}

\* the values the user types into the mapping fields
BindingProps ==
    {"sa_base_name", "sa_bone_name", "sa_start_index", "sa_joints",
     "sa_suffix_a", "sa_suffix_b"}

PanelValues ==
    [sa_base_name   |-> {"fer_link", "panda_link"},
     sa_bone_name   |-> {"Bone", "Other"},
     sa_start_index |-> {0, 1},
     sa_joints      |-> {7, 8},
     sa_suffix_a    |-> {".001", ".002"},
     sa_suffix_b    |-> {".002", ".001"}]

\* how many changes the user has made to the rig setup: mapping fields that
\* differ from the registered defaults, and objects deleted
Edited(scn, objs) ==
    Cardinality({p \in BindingProps : scn[p] # SceneDefaults[p]})
        + Cardinality(RigNames \ DOMAIN objs)

\* the objects the user may delete
Removable == {ObjName("fer_link", 2, ".001")}

\* scene.<prop> = v: the mapping properties have no update callback.  A
\* field is edited once, away from its default, and at most MaxEdited
\* changes are made to the rig setup in a session.
SetProperty(prop) ==
    /\ scene[prop] = SceneDefaults[prop]
    /\ Edited(scene, objects) < MaxEdited
    /\ \E v \in PanelValues[prop] \ {scene[prop]} :
          scene' = [scene EXCEPT ![prop] = v]
    /\ report' = Reported(<<"set", prop>>, "FINISHED", "INFO", "")
    /\ resolved' = {}
    /\ UNCHANGED <<TRAJ, ARMREFS, objects>>

sa_load_traj_a ==
    /\ pc = "rig"
    /\ \E filename \in RigFileNames, fmt \in PanelFormats : Load("A", filename, fmt)
    /\ UNCHANGED <<pc, p_in, p_out, p_q, p_s, moveit>>

sa_load_traj_b ==
    /\ pc = "rig"
    /\ \E filename \in RigFileNames, fmt \in PanelFormats : Load("B", filename, fmt)
    /\ UNCHANGED <<pc, p_in, p_out, p_q, p_s, moveit>>

sa_clear_traj_a ==
    /\ pc = "rig"
    /\ Clear("A")
    /\ UNCHANGED <<pc, p_in, p_out, p_q, p_s, moveit>>

sa_clear_traj_b ==
    /\ pc = "rig"
    /\ Clear("B")
    /\ UNCHANGED <<pc, p_in, p_out, p_q, p_s, moveit>>

sa_scrub ==
    /\ pc = "rig"
    /\ \E f \in RigScrubValues : ScrubUpdate(f)
    /\ UNCHANGED <<pc, p_in, p_out, p_q, p_s, moveit>>

sa_base_name ==
    /\ pc = "rig"
    /\ SetProperty("sa_base_name")
    /\ UNCHANGED <<pc, p_in, p_out, p_q, p_s, moveit>>

sa_bone_name ==
    /\ pc = "rig"
    /\ SetProperty("sa_bone_name")
    /\ UNCHANGED <<pc, p_in, p_out, p_q, p_s, moveit>>

sa_start_index ==
    /\ pc = "rig"
    /\ SetProperty("sa_start_index")
    /\ UNCHANGED <<pc, p_in, p_out, p_q, p_s, moveit>>

sa_joints ==
    /\ pc = "rig"
    /\ SetProperty("sa_joints")
    /\ UNCHANGED <<pc, p_in, p_out, p_q, p_s, moveit>>

sa_suffix_a ==
    /\ pc = "rig"
    /\ SetProperty("sa_suffix_a")
    /\ UNCHANGED <<pc, p_in, p_out, p_q, p_s, moveit>>

sa_suffix_b ==
    /\ pc = "rig"
    /\ SetProperty("sa_suffix_b")
    /\ UNCHANGED <<pc, p_in, p_out, p_q, p_s, moveit>>

\* bpy.data.objects.remove(obj): the handles cached for obj become dead
objects_remove ==
    /\ pc = "rig"
    /\ Edited(scene, objects) < MaxEdited
    /\ \E name \in Removable \cap DOMAIN objects :
          objects' = [n \in DOMAIN objects \ {name} |-> objects[n]]
    /\ report' = Reported(<<"remove">>, "FINISHED", "INFO", "")
    /\ resolved' = {}
    /\ UNCHANGED <<TRAJ, ARMREFS, scene, pc, p_in, p_out, p_q, p_s, moveit>>

RigInit ==
    /\ SceneInit
    /\ selected_objects = <<>>
    /\ pc = "rig"
    /\ p_in = NoInput
    /\ p_out = Raise("", 0, 0)
    /\ p_q = R(0)
    /\ p_s = <<>>

RigNext ==
    \/ sa_load_traj_a
    \/ sa_load_traj_b
    \/ sa_clear_traj_a
    \/ sa_clear_traj_b
    \/ sa_scrub
    \/ sa_base_name
    \/ sa_bone_name
    \/ sa_start_index
    \/ sa_joints
    \/ sa_suffix_a
    \/ sa_suffix_b
    \/ objects_remove

SpecRig == RigInit /\ [][RigNext]_vars

(***************************************************************************)
(* parse_single_arm and sample_q on their own: every file of at most       *)
(* MaxLines lines over LineCatalog, every argument combination of          *)
(* ParseArgs, every query time of Queries.                                 *)
(***************************************************************************)
LineCatalog ==
    { Row(0, 10),
      Row(1, 20),
      Text(",", RowFields(2, 30, NFields)),
      Text("\t", RowFields(4, 40, NFields + 1)),
      Row(0, 50),
      Blank,
      Comment,
      HeaderLine,
      Text(" ", RowFields(1, 60, NFields - 1)) }

RECURSIVE SeqsUpTo(_, _)
SeqsUpTo(S, n) ==
    IF n = 0 THEN {<<>>}
    ELSE LET shorter == SeqsUpTo(S, n - 1)
         IN  shorter \cup {Append(s, x) : s \in shorter, x \in S}

ParseArgs ==
    {<<d, "SECONDS", h, FALSE>> : d \in {"AUTO", "SPACE", "COMMA", "TAB"}, h \in BOOLEAN}
    \cup {<<"AUTO", "MILLISECONDS", h, TRUE>> : h \in BOOLEAN}

ParseInputs ==
    {[file |-> f, delim_mode |-> a[1], time_unit |-> a[2], has_header |-> a[3],
      degrees |-> a[4]] :
        f \in {[exists |-> TRUE, lines |-> l] : l \in SeqsUpTo(LineCatalog, MaxLines)}
              \cup {[exists |-> FALSE, lines |-> <<>>]},
        a \in ParseArgs}

Queries == {R(k) : k \in 0..4}

ParseInit ==
    /\ SceneInit
    /\ selected_objects = <<>>
    /\ pc = "ready"
    /\ p_in \in ParseInputs
    /\ p_out = Raise("", 0, 0)
    /\ p_q = R(0)
    /\ p_s = <<>>

CallParse ==
    /\ pc = "ready"
    /\ p_out' = parse_single_arm(p_in.file, p_in.delim_mode, p_in.time_unit,
                                 p_in.has_header, p_in.degrees)
    /\ pc' = "parsed"
    /\ UNCHANGED <<TRAJ, ARMREFS, scene, objects, report, resolved, p_in, p_q, p_s, moveit>>

CallSample ==
    /\ pc = "parsed"
    /\ p_out.ok
    /\ \E t \in Queries :
          /\ p_q' = t
          /\ p_s' = sample_q(p_out, t)
    /\ pc' = "sampled"
    /\ UNCHANGED <<TRAJ, ARMREFS, scene, objects, report, resolved, p_in, p_out, moveit>>

ParseNext == CallParse \/ CallSample

SpecParse == ParseInit /\ [][ParseNext]_vars

(***************************************************************************)
(* The MoveIt scene exporter (src/export_objects_to_moveit_scene.py) and   *)
(* importer (src/import_objects_from_moveit_scene.py).                     *)
(*                                                                         *)
(* Text.  A string is a sequence of items: Ch(c) is the character with     *)
(* code point c, Fl(m) is the text of a number printed with six decimals,  *)
(* m its value in millionths ("0.500000" is Fl(500000)).  A file is the    *)
(* sequence of its lines.                                                  *)
(***************************************************************************)
Ch(c) == <<"c", c>>
Fl(m) == <<"f", m>>
Chars(codes) == [k \in 1..Len(codes) |-> Ch(codes[k])]

Micro == 1000000            \* six decimals
TYPE_LINE == <<98, 111, 120>>                            \* "box"
SANITIZE_NAMES == TRUE
Header == <<40, 110, 111, 110, 97, 109, 101, 41, 43>>    \* "(noname)+"
DefaultName == <<99, 117, 98, 101>>                      \* "cube"

\* f"{x:.6f}": x rounded to the nearest millionth, ties to even
Round6(x) ==
    LET n == x[1] * Micro
        q == n \div x[2]
        r == n % x[2]
    IN  IF 2 * r < x[2] THEN q
        ELSE IF 2 * r > x[2] THEN q + 1
        ELSE IF q % 2 = 0 THEN q ELSE q + 1

Fmt6(x) == Fl(Round6(x))

\* f"{a:.6f} {b:.6f} ..."
FmtLine(xs) ==
    [k \in 1..(2 * Len(xs) - 1) |->
        IF k % 2 = 1 THEN Fmt6(xs[(k + 1) \div 2]) ELSE Ch(32)]

\* str.lower / str.strip / str.replace(" ", "_") / str.startswith("* ")
IsSpace(item) == item \in {Ch(32), Ch(9)}
Lower(str) ==
    [k \in 1..Len(str) |->
        IF str[k][1] = "c" /\ str[k][2] \in 65..90 THEN Ch(str[k][2] + 32) ELSE str[k]]

RECURSIVE LStrip(_)
LStrip(str) ==
    IF str # <<>> /\ IsSpace(str[1]) THEN LStrip(Tail(str)) ELSE str
RECURSIVE RStrip(_)
RStrip(str) ==
    IF str # <<>> /\ IsSpace(str[Len(str)])
    THEN RStrip(SubSeq(str, 1, Len(str) - 1)) ELSE str
Strip(str) == RStrip(LStrip(str))

Replace(str, old, new) == [k \in 1..Len(str) |-> IF str[k] = old THEN new ELSE str[k]]
StartsWithStar(str) == Len(str) >= 2 /\ str[1] = Ch(42) /\ str[2] = Ch(32)

\* a < b for strings of characters, as Python compares them
RECURSIVE StrLt(_, _)
StrLt(a, b) ==
    IF b = <<>> THEN FALSE
    ELSE IF a = <<>> THEN TRUE
    ELSE IF a[1][2] # b[1][2] THEN a[1][2] < b[1][2]
    ELSE StrLt(Tail(a), Tail(b))

\* objs.sort(key=lambda o: o.name.lower()): a stable sort
RECURSIVE InsertByName(_, _)
InsertByName(sorted, o) ==
    IF sorted = <<>> THEN <<o>>
    ELSE IF ~StrLt(Lower(o.name), Lower(sorted[Len(sorted)].name)) THEN Append(sorted, o)
    ELSE Append(InsertByName(SubSeq(sorted, 1, Len(sorted) - 1), o), sorted[Len(sorted)])

RECURSIVE SortByName(_, _, _)
SortByName(objs, k, acc) ==
    IF k > Len(objs) THEN acc
    ELSE SortByName(objs, k + 1, InsertByName(acc, objs[k]))

\* the name as written: stripped, blanks replaced by underscores
WrittenName(o) ==
    IF SANITIZE_NAMES THEN Replace(Strip(o.name), Ch(32), Ch(95)) ELSE Strip(o.name)

\* the ten lines written for one object
Block(o) ==
    << Chars(<<42, 32>>) \o WrittenName(o),
       FmtLine(<<o.t.x, o.t.y, o.t.z>>),
       FmtLine(<<o.q.x, o.q.y, o.q.z, o.q.w>>),
       Chars(<<49>>),
       Chars(TYPE_LINE),
       FmtLine(<<o.dims.x, o.dims.y, o.dims.z>>),
       Chars(<<48, 32, 48, 32, 48>>),
       Chars(<<48, 32, 48, 32, 48, 32, 49>>),
       Chars(<<48, 32, 48, 32, 48, 32, 48>>),
       Chars(<<48>>) >>

RECURSIVE Blocks(_, _)
Blocks(objs, k) ==
    IF k > Len(objs) THEN <<>> ELSE Block(objs[k]) \o Blocks(objs, k + 1)

\* the lines the export script writes for the mesh objects objs
ExportLines(objs) == <<Chars(Header)>> \o Blocks(objs, 1) \o <<Chars(<<46>>)>>

\* re.split(r"[,\s]+", line.strip()): the pieces between runs of separators
IsSeparator(item) == IsSpace(item) \/ item = Ch(44)

RECURSIVE SplitParts(_, _, _)
SplitParts(str, k, acc) ==
    IF k > Len(str) THEN acc
    ELSE IF IsSeparator(str[k])
    THEN IF k > 1 /\ IsSeparator(str[k - 1]) THEN SplitParts(str, k + 1, acc)
         ELSE SplitParts(str, k + 1, Append(acc, <<>>))
    ELSE SplitParts(str, k + 1,
                    [acc EXCEPT ![Len(acc)] = Append(acc[Len(acc)], str[k])])

\* float(p): the text of one number, or a run of digits
IsFloatText(part) ==
    \/ Len(part) = 1 /\ part[1][1] = "f"
    \/ part # <<>> /\ \A k \in 1..Len(part) : part[k][1] = "c" /\ part[k][2] \in 48..57

RECURSIVE DigitsValue(_, _)
DigitsValue(part, acc) ==
    IF part = <<>> THEN acc
    ELSE DigitsValue(Tail(part), 10 * acc + (part[1][2] - 48))

FloatOf(part) ==
    IF part[1][1] = "f" THEN Norm(part[1][2], Micro) ELSE R(DigitsValue(part, 0))

\* parse_floats(line, n): [ok, vals]
parse_floats(line, n) ==
    LET parts == SplitParts(Strip(line), 1, <<<<>>>>)
    IN  IF \E k \in 1..Len(parts) : ~IsFloatText(parts[k])
        THEN [ok |-> FALSE, vals |-> <<>>]
        ELSE IF Len(parts) # n THEN [ok |-> FALSE, vals |-> <<>>]
        ELSE [ok |-> TRUE, vals |-> [k \in 1..Len(parts) |-> FloatOf(parts[k])]]

\* nonempty_lines(fp)
nonempty_lines(lines) ==
    SelectSeq([k \in 1..Len(lines) |-> Strip(lines[k])], LAMBDA l : l # <<>>)

\* the loop "for line in it": [ok, err, entries]
RECURSIVE ParseEntries(_, _, _)
ParseEntries(it, k, acc) ==
    IF k > Len(it) THEN [ok |-> TRUE, err |-> "", entries |-> acc]
    ELSE IF ~StartsWithStar(it[k]) THEN ParseEntries(it, k + 1, acc)
    ELSE LET rest == Strip(SubSeq(it[k], 3, Len(it[k])))
             name == IF rest = <<>> THEN Chars(DefaultName) ELSE rest
             stop == [ok |-> FALSE, err |-> "StopIteration", entries |-> <<>>]
             bad  == [ok |-> FALSE, err |-> "ValueError", entries |-> <<>>]
         IN  IF k + 1 > Len(it) THEN stop
             ELSE IF ~parse_floats(it[k + 1], 3).ok THEN bad
             ELSE IF k + 2 > Len(it) THEN stop
             ELSE IF ~parse_floats(it[k + 2], 4).ok THEN bad
             ELSE IF k + 5 > Len(it) THEN stop
             ELSE IF ~parse_floats(it[k + 5], 3).ok THEN bad
             ELSE IF k + 9 > Len(it) THEN stop
             ELSE ParseEntries(it, k + 10,
                      Append(acc, [name      |-> name,
                                   pos       |-> parse_floats(it[k + 1], 3).vals,
                                   quat_xyzw |-> parse_floats(it[k + 2], 4).vals,
                                   shape     |-> Lower(Strip(it[k + 4])),
                                   size      |-> parse_floats(it[k + 5], 3).vals]))

\* _parse_scene_file(path) on the lines of the file
_parse_scene_file(lines) ==
    LET it == nonempty_lines(lines)
    IN  IF it = <<>> THEN [ok |-> TRUE, err |-> "", entries |-> <<>>]
        ELSE IF StartsWithStar(it[1]) THEN ParseEntries(it, 1, <<>>)
        ELSE ParseEntries(it, 2, <<>>)

\* _unique_name(base, existing_names): base, or base.001, base.002, ...
RECURSIVE NextFree(_, _, _)
NextFree(base, existing, i) ==
    LET nm == base \o Chars(<<46, 48 + ((i \div 100) % 10), 48 + ((i \div 10) % 10),
                              48 + (i % 10)>>)
    IN  IF nm \notin existing THEN nm ELSE NextFree(base, existing, i + 1)

_unique_name(base, existing) == IF base \notin existing THEN base ELSE NextFree(base, existing, 1)

\* the loop over the entries: a cube per box entry.  The cube's rotation is
\* the quaternion (w, x, y, z) of the entry, normalised when the panel says so.
RECURSIVE SpawnCubes(_, _, _, _)
SpawnCubes(es, k, names, acc) ==
    IF k > Len(es) THEN acc
    ELSE IF es[k].shape # Chars(<<98, 111, 120>>) THEN SpawnCubes(es, k + 1, names, acc)
    ELSE LET nm == _unique_name(es[k].name, names)
             cube == [name |-> nm,
                      location |-> es[k].pos,
                      rotation_quaternion |->
                          [w |-> es[k].quat_xyzw[4], x |-> es[k].quat_xyzw[1],
                           y |-> es[k].quat_xyzw[2], z |-> es[k].quat_xyzw[3],
                           normalized |-> TRUE],
                      dimensions |-> es[k].size]
         IN  SpawnCubes(es, k + 1, names \cup {nm}, Append(acc, cube))

\* the objects of the blend file the exporter is run on
V3(a, b, c) == [x |-> a, y |-> b, z |-> c]
Quat(qw, qx, qy, qz) == [w |-> qw, x |-> qx, y |-> qy, z |-> qz]
SceneObject(type, name, t, q, dims) ==
    [type |-> type, name |-> Chars(name), t |-> t, q |-> q, dims |-> dims]

SceneObjects ==
    { SceneObject("MESH", <<67, 117, 98, 101>>,                     \* "Cube"
                  V3(<<1, 2>>, <<-1, 3>>, R(0)),
                  Quat(R(1), R(0), R(0), R(0)), V3(R(2), R(2), R(2))),
      SceneObject("MESH", <<98, 111, 120, 32, 97>>,                 \* "box a"
                  V3(<<2, 3>>, R(1), <<-5, 2>>),
                  Quat(<<1, 2>>, <<-1, 2>>, <<1, 3>>, <<2, 3>>), V3(<<1, 3>>, <<1, 4>>, R(1))),
      SceneObject("MESH", <<99, 117, 98, 101>>,                     \* "cube"
                  V3(R(3), R(4), R(5)),
                  Quat(R(0), R(0), R(0), R(1)), V3(<<1, 8000000>>, R(1), R(1))),
      SceneObject("MESH", <<32, 98, 32>>,                           \* " b "
                  V3(R(-1), R(-2), R(-3)),
                  Quat(<<3, 5>>, R(0), <<4, 5>>, R(0)), V3(R(1), R(2), R(3))),
      SceneObject("MESH", <<32>>,                                   \* " "
                  V3(R(7), R(8), R(9)),
                  Quat(R(1), R(0), R(0), R(0)), V3(R(1), R(1), R(1))),
      SceneObject("MESH", <<65, 49>>,                               \* "A1"
                  V3(<<1, 3>>, <<1, 6>>, <<1, 7>>),
                  Quat(<<1, 2>>, <<1, 2>>, <<1, 2>>, <<1, 2>>), V3(<<5, 3>>, R(1), R(1))),
      SceneObject("LIGHT", <<76, 97, 109, 112>>,                    \* "Lamp"
                  V3(R(0), R(0), R(6)),
                  Quat(R(1), R(0), R(0), R(0)), V3(R(0), R(0), R(0))) }

\* the selections: up to MaxSelected distinct objects, in any order
Selections ==
    {sel \in SeqsUpTo(SceneObjects, MaxSelected) :
        \A i, j \in 1..Len(sel) : i # j => sel[i] # sel[j]}

\* running the export script
export_objects_to_moveit_scene ==
    /\ pc = "select"
    /\ LET objs == SelectSeq(selected_objects, LAMBDA o : o.type = "MESH")
       IN  IF objs = <<>>
           THEN /\ report' = Reported(<<"export">>, "EXCEPTION", "ERROR",
                                      "No MESH objects selected.")
                /\ pc' = "failed"
                /\ UNCHANGED scene_file
           ELSE /\ scene_file' = [exists |-> TRUE,
                                  lines |-> ExportLines(SortByName(objs, 1, <<>>))]
                /\ report' = Reported(<<"export">>, "FINISHED", "INFO", "Wrote")
                /\ pc' = "exported"
    /\ UNCHANGED <<TRAJ, ARMREFS, scene, objects, resolved, p_in, p_out, p_q, p_s,
                   selected_objects, entries, created>>

\* MOVEIT_SCENE_OT_Import.execute with scene_path set to the file written
MOVEIT_SCENE_OT_Import ==
    /\ pc = "exported"
    /\ pc' = "imported"
    /\ LET res == _parse_scene_file(scene_file.lines)
           names == {selected_objects[k].name : k \in 1..Len(selected_objects)}
       IN  IF ~res.ok
           THEN /\ report' = Reported(<<"import">>, "CANCELLED", "ERROR", "Read failed")
                /\ UNCHANGED <<entries, created>>
           ELSE IF res.entries = <<>>
           THEN /\ report' = Reported(<<"import">>, "CANCELLED", "WARNING",
                                      "No entries found.")
                /\ entries' = res.entries
                /\ UNCHANGED created
           ELSE /\ entries' = res.entries
                /\ created' = SpawnCubes(res.entries, 1, names, <<>>)
                /\ report' = Reported(<<"import">>, "FINISHED", "INFO", "Imported")
    /\ UNCHANGED <<TRAJ, ARMREFS, scene, objects, resolved, p_in, p_out, p_q, p_s,
                   selected_objects, scene_file>>

MoveItInit ==
    /\ SceneInit
    /\ selected_objects \in Selections
    /\ pc = "select"
    /\ p_in = NoInput
    /\ p_out = Raise("", 0, 0)
    /\ p_q = R(0)
    /\ p_s = <<>>

MoveItNext == export_objects_to_moveit_scene \/ MOVEIT_SCENE_OT_Import

SpecMoveIt == MoveItInit /\ [][MoveItNext]_vars

(***************************************************************************)
(* What a file holds, read off the file independently of the parser's loop *)
(***************************************************************************)
\* the lines that are neither blank nor '#' comments, in file order
NonSkipped(lines) == SelectSeq(lines, LAMBDA l : l.kind = "text")

\* the lines the parser has to treat as data rows
DataLines(in) ==
    LET ns == NonSkipped(in.file.lines)
    IN  IF in.has_header /\ ns # <<>> THEN Tail(ns) ELSE ns

Parts(in, line) == Split(in.delim_mode, line)
WellFormed(in, line) == AllNumeric(Parts(in, line)) /\ Len(Parts(in, line)) >= NFields

RowTime(in, line) ==
    LET v == R(Parts(in, line)[1][2])
    IN  IF in.time_unit = "MILLISECONDS" THEN RMul(v, <<1, 1000>>) ELSE v

RowPose(in, line) ==
    [j \in 1..(PoseEnd - 1) |->
        LET v == R(Parts(in, line)[j + 1][2])
        IN  IF in.degrees THEN RMul(v, <<PiNum, PiDen * 180>>) ELSE v]

\* parse_single_arm has just returned or raised on a file that exists
Parsed == pc = "parsed" /\ p_in.file.exists
Accepted == Parsed /\ p_out.ok

MaxIdx(S) == CHOOSE i \in S : \A j \in S : j <= i

DataTimes == {RowTime(p_in, DataLines(p_in)[i]) : i \in 1..Len(DataLines(p_in))}

\* two data rows are merged into one entry when every gap between
\* neighbouring row times from the one to the other is below 1e-12
Chained(i, j) ==
    LET data == DataLines(p_in)
        ti == RowTime(p_in, data[i])
        tj == RowTime(p_in, data[j])
        lo == RMin(ti, tj)
        hi == RMax(ti, tj)
    IN  \A x \in DataTimes :
            (RLe(lo, x) /\ RLt(x, hi)) =>
                \E y \in DataTimes : RLt(x, y) /\ RLt(RSub(y, x), R(TOL))

GroupOf(i) == {j \in 1..Len(DataLines(p_in)) : Chained(i, j)}

\* the row of i's group that is last in the stably sorted order: of the
\* rows with the group's greatest time, the last one in file order
LastSorted(i) ==
    LET data == DataLines(p_in)
        top  == {j \in GroupOf(i) :
                    \A h \in GroupOf(i) :
                        RLe(RowTime(p_in, data[h]), RowTime(p_in, data[j]))}
    IN  MaxIdx(top)

Entries == {<<p_out.t[k], p_out.q[k]>> : k \in 1..Len(p_out.t)}

C2_LastSortedRowWins ==
    Accepted =>
        LET data == DataLines(p_in)
        IN  /\ Entries = {<<RowTime(p_in, data[LastSorted(i)]),
                            RowPose(p_in, data[LastSorted(i)])>> : i \in 1..Len(data)}
            /\ Len(p_out.t) = Cardinality(Entries)

\* a repeated timestamp merged with a row of a later time that stands
\* earlier in the file: the surviving row is not the last one in file order
C2_Witness ==
    /\ Accepted
    /\ LET data == DataLines(p_in)
       IN  \E i, j, h \in 1..Len(data) :
              /\ i < j
              /\ RowTime(p_in, data[i]) = RowTime(p_in, data[j])
              /\ RowPose(p_in, data[i]) # RowPose(p_in, data[j])
              /\ RLt(RowTime(p_in, data[i]), RowTime(p_in, data[h]))
              /\ Chained(i, h)
              /\ LastSorted(i) # MaxIdx(GroupOf(i))
              /\ <<RowTime(p_in, data[LastSorted(i)]),
                   RowPose(p_in, data[LastSorted(i)])>> \in Entries

\* C2 as stated: the surviving entry has the pose of the merged row that is
\* last in file order
C2_Original ==
    Accepted =>
        LET data == DataLines(p_in)
        IN  {p_out.q[k] : k \in 1..Len(p_out.q)}
                = {RowPose(p_in, data[MaxIdx(GroupOf(i))]) : i \in 1..Len(data)}

(***************************************************************************)
(* C3: sample_q clamps: a query at or before the first time returns the    *)
(* first pose, a query at or after the last time returns the last pose     *)
(* (single-sample trajectories included).                                  *)
(***************************************************************************)
C3_Clamp ==
    pc = "sampled" =>
        /\ RLe(p_q, p_out.t[1]) => p_s = p_out.q[1]
        /\ RLe(p_out.t[Len(p_out.t)], p_q) => p_s = p_out.q[Len(p_out.q)]

\* a right clamp on a trajectory whose first and last poses differ
C3_Witness ==
    /\ pc = "sampled"
    /\ Len(p_out.t) >= 2
    /\ RLt(p_out.t[Len(p_out.t)], p_q)
    /\ p_out.q[1] # p_out.q[Len(p_out.q)]
    /\ p_s = p_out.q[Len(p_out.q)]

(***************************************************************************)
(* C4: for a query strictly between two consecutive sample times           *)
(* t0 < q < t1, each component of the result is the linear blend           *)
(* (1-r)*pose0 + r*pose1 with r = (q-t0)/(t1-t0), and so lies between the  *)
(* two poses; times [0, 1], poses [0]*7 and [7]*7, q = 0.5 give [3.5]*7.   *)
(***************************************************************************)
Interior(k) ==
    /\ pc = "sampled"
    /\ k \in 1..(Len(p_out.t) - 1)
    /\ RLt(p_out.t[k], p_q)
    /\ RLt(p_q, p_out.t[k + 1])

\* s * (t1 - t0) = (t1 - q) * a + (q - t0) * b
IsBlend(s, t0, t1, q, a, b) ==
    RMul(s, RSub(t1, t0)) = RAdd(RMul(RSub(t1, q), a), RMul(RSub(q, t0), b))

Between(s, a, b) == RLe(RMin(a, b), s) /\ RLe(s, RMax(a, b))

ExampleTraj ==
    [t |-> <<R(0), R(Second)>>,
     q |-> <<[j \in 1..7 |-> R(0)], [j \in 1..7 |-> R(7)]>>]

C4_LinearBlend ==
    /\ \A k \in 1..(Len(p_out.t) - 1) :
          Interior(k) =>
              /\ Len(p_s) = PoseEnd - 1
              /\ \A j \in 1..Len(p_s) :
                    /\ Between(p_s[j], p_out.q[k][j], p_out.q[k + 1][j])
                    /\ IsBlend(p_s[j], p_out.t[k], p_out.t[k + 1], p_q,
                               p_out.q[k][j], p_out.q[k + 1][j])
    /\ sample_q(ExampleTraj, Norm(Second, 2)) = [j \in 1..7 |-> <<7, 2>>]

(***************************************************************************)
(* The union time range and the rig, read off the state                    *)
(***************************************************************************)
First(a) == TRAJ[a].t[1]
Last(a) == TRAJ[a].t[Len(TRAJ[a].t)]

TMin ==
    IF TRAJ["A"].loaded /\ TRAJ["B"].loaded THEN RMin(First("A"), First("B"))
    ELSE IF TRAJ["A"].loaded THEN First("A")
    ELSE IF TRAJ["B"].loaded THEN First("B")
    ELSE R(0)

TMax ==
    IF TRAJ["A"].loaded /\ TRAJ["B"].loaded THEN RMax(Last("A"), Last("B"))
    ELSE IF TRAJ["A"].loaded THEN Last("A")
    ELSE IF TRAJ["B"].loaded THEN Last("B")
    ELSE R(Second)

\* the last event was a scrub update or a successful load:
\* apply_pose_from_scrub ran, and ran to its end
Applied ==
    /\ report.result = "FINISHED"
    /\ report.level = "INFO"
    /\ report.op[1] \in {"scrub", "load"}

\* the joint angle of link j of the arm with the given suffix
Angle(j, suffix) == objects[ObjName("fer_link", j, suffix)].rotation_euler_y
Resolvable(j, suffix) ==
    /\ objects[ObjName("fer_link", j, suffix)].type = "ARMATURE"
    /\ objects[ObjName("fer_link", j, suffix)].bone = "Bone"

(***************************************************************************)
(* C5 (as amended): after every scrub update and every successful load the *)
(* stored scene time is t_min + fraction * max(t_max - t_min, 1e-9), with  *)
(* [t_min, t_max] the union range of the loaded trajectories; this is      *)
(* t_min + fraction * (t_max - t_min) whenever t_max - t_min >= 1e-9.      *)
(***************************************************************************)
C5_SceneTimeFloored ==
    Applied =>
        IF RLt(RSub(TMax, TMin), R(MinDuration))
        THEN scene.sa_time = RAdd(TMin, RMul(scene.sa_scrub, R(MinDuration)))
        ELSE scene.sa_time = RAdd(TMin, RMul(scene.sa_scrub, RSub(TMax, TMin)))

\* a scrub update with a single one-sample trajectory loaded (t_min = t_max)
C5_Witness ==
    /\ report.op = <<"scrub">>
    /\ Loaded(TRAJ) # {}
    /\ TMin = TMax
    /\ scene.sa_scrub = <<1, 2>>
    /\ scene.sa_time # TMin

\* C5 as stated: the stored time is t_min + fraction * (t_max - t_min)
C5_Original ==
    Applied => scene.sa_time = RAdd(TMin, RMul(scene.sa_scrub, RSub(TMax, TMin)))

SpansAB ==
    /\ Loaded(TRAJ) = {"A", "B"}
    /\ First("A") = R(0) /\ Last("A") = R(Second)
    /\ First("B") = R(2 * Second) /\ Last("B") = R(3 * Second)

C7_DisjointSpans ==
    (Applied /\ SpansAB /\ scene.sa_scrub = <<1, 2>>) =>
        /\ _global_time_range(TRAJ) = <<R(0), R(3 * Second)>>
        /\ scene.sa_time = Norm(3 * Second, 2)
        /\ \A j \in 1..7 :
              Angle(j, ".001") = TRAJ["A"].q[Len(TRAJ["A"].q)][j]
        /\ \A j \in 1..7 :
              Resolvable(j, ".002") => Angle(j, ".002") = TRAJ["B"].q[1][j]

C7_Witness ==
    /\ Applied /\ SpansAB /\ scene.sa_scrub = <<1, 2>>
    /\ TRAJ["A"].q[1] # TRAJ["A"].q[2]
    /\ TRAJ["B"].q[1] # TRAJ["B"].q[2]
    /\ Angle(1, ".001") = TRAJ["A"].q[2][1]
    /\ Angle(1, ".002") = TRAJ["B"].q[1][1]

(***************************************************************************)
(* C8: a load that fails with a parse error (empty path, missing file,     *)
(* non-numeric token, fewer than 15 fields, no valid row) is cancelled and *)
(* leaves both trajectories, both binding caches, the stored scene time    *)
(* and every joint angle as they were.                                     *)
(***************************************************************************)
BadFileNames == {"", "missing.txt", "word.txt", "short.txt", "empty.txt"}

C8_FailedLoadIsAtomic ==
    [][(report'.op[1] = "load" /\ report'.op[3] \in BadFileNames) =>
          /\ report'.result = "CANCELLED"
          /\ UNCHANGED <<TRAJ, ARMREFS, scene, objects>>]_vars

\* a failed load for an arm that holds a trajectory, a cache and a pose
C8_Witness ==
    /\ report.op = <<"load", "A", "short.txt">>
    /\ report.result = "CANCELLED"
    /\ Loaded(TRAJ) = {"A", "B"}
    /\ ARMREFS["A"].cached /\ ARMREFS["B"].cached
    /\ scene.sa_time # R(0)
    /\ Angle(1, ".001") # R(0)

(***************************************************************************)
(* C9: parse_single_arm is fail-fast: a data line with a non-numeric token *)
(* or fewer than 15 fields makes the whole parse raise (the field-count    *)
(* error reporting the count found) whatever valid rows stand before or    *)
(* after it; rows of 15 or more fields are accepted and only fields 0..7   *)
(* are retained.                                                           *)
(***************************************************************************)
BadRows == {i \in 1..Len(DataLines(p_in)) : ~WellFormed(p_in, DataLines(p_in)[i])}
FirstBad == CHOOSE i \in BadRows : \A j \in BadRows : i <= j

C9_FailFast ==
    Parsed =>
        LET data == DataLines(p_in)
        IN  /\ BadRows # {} =>
                  /\ ~p_out.ok
                  /\ p_out.t = <<>> /\ p_out.q = <<>>
                  /\ p_out.line \in 1..Len(p_in.file.lines)
                  /\ p_in.file.lines[p_out.line] = data[FirstBad]
                  /\ IF ~AllNumeric(Parts(p_in, data[FirstBad]))
                     THEN p_out.err = "Non-numeric data in line"
                     ELSE /\ p_out.err = "Expected 15 numbers (t + 7 pos + 7 vel). Got"
                          /\ p_out.got = Len(Parts(p_in, data[FirstBad]))
            /\ (BadRows = {} /\ data # <<>>) => p_out.ok
            /\ p_out.ok =>
                  \A k \in 1..Len(p_out.t) :
                      /\ Len(p_out.q[k]) = 7
                      /\ \E i \in 1..Len(data) :
                            /\ p_out.t[k] = RowTime(p_in, data[i])
                            /\ p_out.q[k] = RowPose(p_in, data[i])

\* a 14-field line between two valid rows
C9_Witness ==
    /\ Parsed
    /\ Len(DataLines(p_in)) = 3
    /\ BadRows = {2}
    /\ p_out.err = "Expected 15 numbers (t + 7 pos + 7 vel). Got"
    /\ p_out.got = 14

(***************************************************************************)
(* C10: parse_single_arm never returns an empty trajectory: a file with no *)
(* data line (only blanks and comments, or only the line discarded as      *)
(* header) raises "no valid rows".  Blank and '#' lines are skipped before *)
(* the header rule: with has_header the first non-skipped line is dropped  *)
(* whatever it holds, and every later non-skipped line is data.            *)
(***************************************************************************)
C10_NeverEmpty ==
    Parsed =>
        LET data == DataLines(p_in)
        IN  /\ p_out.ok => (Len(p_out.t) >= 1 /\ Len(p_out.q) >= 1)
            /\ data = <<>> <=> (~p_out.ok /\ p_out.err = "No valid data rows found.")
            /\ data # <<>> =>
                  /\ p_out.ok <=> BadRows = {}
                  /\ p_out.ok =>
                        /\ {p_out.t[k] : k \in 1..Len(p_out.t)} \subseteq DataTimes
                        /\ \A x \in DataTimes : RLe(x, p_out.t[Len(p_out.t)])

\* a comment, then a header of words, then one row: the row is returned
C10_Witness ==
    /\ Accepted
    /\ p_in.has_header
    /\ Len(p_in.file.lines) = 3
    /\ p_in.file.lines[1].kind = "comment"
    /\ ~AllNumeric(Parts(p_in, p_in.file.lines[2]))
    /\ Len(p_out.t) = 1

(***************************************************************************)
(* The events of a session, read off the report; the files as trajectories *)
(***************************************************************************)
\* the step is a load for arm a that got past the parser
LoadedStep(a) ==
    /\ report'.op[1] = "load"
    /\ report'.op[2] = a
    /\ report'.result # "CANCELLED"

ClearStep(a) == report'.op = <<"clear", a>>

\* the rows of a file whose lines are all rows, in time order and apart
FileTraj(f) ==
    LET rows == DiskFiles[f]
    IN  [loaded |-> TRUE,
         t |-> [k \in 1..Len(rows) |-> R(rows[k].fields[1][2])],
         q |-> [k \in 1..Len(rows) |->
                   [j \in 1..(PoseEnd - 1) |-> R(rows[k].fields[j + 1][2])]]]

(***************************************************************************)
(* C11: a load for arm X that parses replaces X's trajectory wholesale by  *)
(* the parsed file and leaves the other arm's trajectory alone; a clear    *)
(* for arm X empties X's trajectory and leaves the other arm's alone; no   *)
(* other event (scrub update, edit of the binding configuration, deletion  *)
(* of an object) changes a trajectory.                                     *)
(***************************************************************************)
C11_TrajectoryLifecycle ==
    [][\A a \in Arms :
          /\ LoadedStep(a) => TRAJ'[a] = FileTraj(report'.op[3])
          /\ ClearStep(a) => TRAJ'[a] = NoTraj
          /\ ~(LoadedStep(a) \/ ClearStep(a)) => TRAJ'[a] = TRAJ[a]]_vars

\* arm A holds one.txt, loaded last, arm B holds a.txt, and the joint count
\* was edited on the way
C11_Witness ==
    /\ report.op = <<"load", "A", "one.txt">>
    /\ report.result = "FINISHED"
    /\ TRAJ["A"] = FileTraj("one.txt")
    /\ TRAJ["B"] = FileTraj("a.txt")
    /\ TRAJ["A"].t # TRAJ["B"].t
    /\ scene.sa_joints = 8

(***************************************************************************)
(* C12: a failure raised while a scrub update computes or pushes the poses *)
(* is caught and logged by the update handler: nothing propagates to the   *)
(* UI layer, the loaded trajectories stay loaded, the scene time has been  *)
(* stored, and a scrub update that follows a failed one is processed like  *)
(* any other.                                                              *)
(***************************************************************************)
C12_ScrubFailureSuppressed ==
    [][report'.op = <<"scrub">> =>
          /\ report'.result = "FINISHED"
          /\ report'.level = "ERROR" => report'.msg = "[Dual] Scrub error"
          /\ TRAJ' = TRAJ
          /\ scene'.sa_time = ScrubTime(TRAJ, scene'.sa_scrub)
          /\ (report.op = <<"scrub">> /\ report.level = "ERROR") =>
                \/ report'.level = "ERROR"
                \/ \A a \in Loaded(TRAJ) : ARMREFS'[a].cached]_vars

\* a scrub update that failed at the deleted link 2 of arm A: link 1 has the
\* new pose, link 3 still the pose of the load
C12_Witness ==
    /\ report.op = <<"scrub">>
    /\ report.level = "ERROR"
    /\ TRAJ["A"] = FileTraj("a.txt")
    /\ ObjName("fer_link", 2, ".001") \notin DOMAIN objects
    /\ scene.sa_scrub = R(1)
    /\ Angle(1, ".001") = TRAJ["A"].q[2][1]
    /\ Angle(3, ".001") = TRAJ["A"].q[1][3]

(***************************************************************************)
(* C13: exporting N selected mesh objects and parsing the written file     *)
(* with the importer yields exactly N entries, all of shape "box" (so N    *)
(* cubes are spawned), in export order, whose name, position, quaternion   *)
(* (x y z w) and size are the values written for the object, the numbers   *)
(* to six decimals; the header line and the "." line give no entry.        *)
(***************************************************************************)
Meshes == SelectSeq(selected_objects, LAMBDA o : o.type = "MESH")
Written(x) == Norm(Round6(x), Micro)
Close(x, y) == RLe(RAbs(RSub(x, y)), <<1, Micro>>)

C13_RoundTrip ==
    pc = "imported" =>
        LET objs == SortByName(Meshes, 1, <<>>)
        IN  /\ report.result = "FINISHED"
            /\ Len(entries) = Len(objs)
            /\ Len(created) = Len(objs)
            /\ \A k \in 1..Len(entries) :
                  /\ entries[k].shape = Chars(TYPE_LINE)
                  /\ entries[k].name # Chars(Header)
                  /\ k <= Len(objs) =>
                        LET o == objs[k]
                        IN  /\ entries[k].name = WrittenName(o)
                            /\ entries[k].pos =
                                  <<Written(o.t.x), Written(o.t.y), Written(o.t.z)>>
                            /\ entries[k].quat_xyzw =
                                  <<Written(o.q.x), Written(o.q.y), Written(o.q.z),
                                    Written(o.q.w)>>
                            /\ entries[k].size =
                                  <<Written(o.dims.x), Written(o.dims.y),
                                    Written(o.dims.z)>>
                            /\ Close(entries[k].pos[1], o.t.x)
                            /\ Close(entries[k].quat_xyzw[4], o.q.w)
                            /\ Close(entries[k].size[1], o.dims.x)

(***************************************************************************)
(* The binding configuration and the pose application, read off a step     *)
(***************************************************************************)
\* the binding configuration tuple of arm a under the scene properties scn
Tuple(scn, a) ==
    <<scn.sa_base_name, scn.sa_start_index, scn.sa_joints,
      IF a = "A" THEN scn.sa_suffix_a ELSE scn.sa_suffix_b, scn.sa_bone_name>>

\* the object the tuple tup names for the handle at position j (1-based)
Named(tup, j) == <<tup[1], tup[2] + j, tup[4]>>

\* the step ran apply_pose_from_scrub to its end
AppliedStep ==
    /\ report'.op[1] \in {"scrub", "load"}
    /\ report'.result = "FINISHED"
    /\ report'.level = "INFO"

\* ensure_arm_refs was called for arm a in the step
EnsureCalled(a) == AppliedStep /\ TRAJ'[a].loaded

\* the joint angle of object n changed in the step
Moved(n) ==
    /\ n \in DOMAIN objects /\ n \in DOMAIN objects'
    /\ objects'[n].rotation_euler_y # objects[n].rotation_euler_y

(***************************************************************************)
(* C14 (as amended): a call of ensure_arm_refs for an arm skips the        *)
(* resolution and returns the cached list whenever the arm's cache entry   *)
(* is still in place (no load and no clear of that arm since its last      *)
(* resolution) and the binding configuration tuple equals the entry's key; *)
(* a load of the arm drops the entry, so the call made by the load always  *)
(* resolves again, the tuple unchanged or not.                             *)
(***************************************************************************)
C14_MemoizedUnlessReset ==
    [][\A a \in Arms :
          /\ (/\ ARMREFS[a].cached
              /\ ARMREFS[a].key = Tuple(scene', a)
              /\ ~LoadedStep(a)
              /\ ~ClearStep(a))
                => (a \notin resolved' /\ ARMREFS'[a] = ARMREFS[a])
          /\ (LoadedStep(a) /\ EnsureCalled(a)) => a \in resolved']_vars

\* a scrub update served from both caches after the joint count was edited
C14_Witness ==
    /\ report.op = <<"scrub">>
    /\ report.level = "INFO"
    /\ Loaded(TRAJ) = {"A", "B"}
    /\ resolved = {}
    /\ scene.sa_joints = 8
    /\ \A a \in Arms : ARMREFS[a].cached /\ ARMREFS[a].key = Tuple(scene, a)

\* C14 as stated: no resolution whenever the tuple is the one of the arm's
\* last resolution
C14_Original ==
    [][\A a \in Arms :
          (ARMREFS[a].cached /\ ARMREFS[a].key = Tuple(scene', a))
              => a \notin resolved']_vars

(***************************************************************************)
(* C15: the handle list ensure_arm_refs returns for an arm was resolved    *)
(* under the binding configuration tuple in force at the call: a cache     *)
(* entry whose key differs from the tuple in any component is resolved     *)
(* again and replaced as a whole, and poses are applied only to objects    *)
(* the tuple in force names.                                               *)
(***************************************************************************)
C15_CacheFollowsTuple ==
    [][/\ \A a \in Arms :
             EnsureCalled(a) =>
                 /\ ARMREFS'[a].cached
                 /\ ARMREFS'[a].key = Tuple(scene', a)
                 /\ Len(ARMREFS'[a].refs) = scene'.sa_joints
                 /\ \A j \in 1..Len(ARMREFS'[a].refs) :
                       ARMREFS'[a].refs[j].ok =>
                           ARMREFS'[a].refs[j].name = Named(Tuple(scene', a), j)
                 /\ (ARMREFS[a].cached /\ ARMREFS[a].key # Tuple(scene', a))
                       => a \in resolved'
       /\ \A n \in DOMAIN objects :
             (AppliedStep /\ Moved(n)) =>
                 \E a \in Loaded(TRAJ'), j \in 1..scene'.sa_joints :
                     n = Named(Tuple(scene', a), j)]_vars

\* a scrub update after arm A's suffix alone was edited: arm A's entry, held
\* under the old suffix, is replaced and arm A's poses go to the objects of
\* the new suffix
C15_Witness ==
    /\ report.op = <<"scrub">>
    /\ report.level = "INFO"
    /\ scene.sa_suffix_a = ".002"
    /\ resolved = {"A"}
    /\ ARMREFS["A"].key = Tuple(scene, "A")
    /\ ARMREFS["A"].refs[1].name = ObjName("fer_link", 1, ".002")
    /\ Angle(1, ".002") = TRAJ["A"].q[Len(TRAJ["A"].q)][1]
    /\ Angle(1, ".001") = TRAJ["A"].q[1][1]

(***************************************************************************)
(* C16: the resolved handle list has exactly joint-count entries, an       *)
(* unresolvable joint being a (None, None) placeholder at its own          *)
(* position; on a scrub update, for each index j below                     *)
(* min(len(pose), len(handles)) whose handle is resolved the joint's angle *)
(* is set to pose[j]; placeholders and handle indices from len(pose) on    *)
(* receive nothing, and no error is raised.                                *)
(***************************************************************************)
\* get_joint_bone finds an armature with the bone for the name
Found(objs, n, bone) ==
    /\ n \in DOMAIN objs
    /\ objs[n].type = "ARMATURE"
    /\ objs[n].bone = bone

\* the handles of arm a that take a pose of np components
Targets(refs, np) ==
    {refs[j].name : j \in {i \in 1..Len(refs) : i <= np /\ refs[i].ok}}

C16_PoseApplication ==
    [][/\ \A a \in Arms :
             a \in resolved' =>
                 /\ Len(ARMREFS'[a].refs) = scene'.sa_joints
                 /\ \A j \in 1..Len(ARMREFS'[a].refs) :
                       LET n == Named(Tuple(scene', a), j)
                       IN  IF Found(objects, n, scene'.sa_bone_name)
                           THEN ARMREFS'[a].refs[j] = [ok |-> TRUE, name |-> n]
                           ELSE ARMREFS'[a].refs[j] = NoneRef
       /\ (report'.op = <<"scrub">> /\ RigNames \subseteq DOMAIN objects) =>
             /\ report'.level = "INFO"
             /\ \A a \in Loaded(TRAJ) :
                   LET pose == sample_q(TRAJ[a], scene'.sa_time)
                       refs == ARMREFS'[a].refs
                   IN  \A j \in 1..Len(refs) :
                           (/\ j <= Len(pose)
                            /\ refs[j].ok
                            /\ (a = "A" => \/ ~TRAJ["B"].loaded
                                           \/ refs[j].name \notin
                                                Targets(ARMREFS'["B"].refs, PoseEnd - 1)))
                               => objects'[refs[j].name].rotation_euler_y = pose[j]
             /\ \A n \in DOMAIN objects :
                   Moved(n) =>
                       \E a \in Loaded(TRAJ) :
                           n \in Targets(ARMREFS'[a].refs,
                                         Len(sample_q(TRAJ[a], scene'.sa_time)))]_vars

\* a scrub update with eight handles per arm and seven pose components: arm
\* B's list holds placeholders at links 3 and 6, link 7 takes the last pose
\* component, link 8 is resolved and takes nothing
C16_Witness ==
    /\ report.op = <<"scrub">>
    /\ report.level = "INFO"
    /\ scene.sa_joints = 8
    /\ Loaded(TRAJ) = {"A", "B"}
    /\ Len(ARMREFS["B"].refs) = 8
    /\ ARMREFS["B"].refs[3] = NoneRef
    /\ ARMREFS["B"].refs[6] = NoneRef
    /\ ARMREFS["B"].refs[8] = [ok |-> TRUE, name |-> ObjName("fer_link", 8, ".002")]
    /\ Angle(7, ".002") = TRAJ["B"].q[Len(TRAJ["B"].q)][7]
    /\ Angle(7, ".002") # R(0)
    /\ Angle(8, ".002") = R(0)
    /\ Angle(3, ".002") = R(0)

(***************************************************************************)
(* C17 (as amended): for a query time q strictly inside the trajectory's   *)
(* range, sample_q interpolates over the bracketing pair with index i such *)
(* that times[i-1] < q <= times[i]; when q equals an interior sample time  *)
(* the pair ends at that sample, the ratio is 1 and the result is the pose *)
(* stored at that sample time.                                             *)
(***************************************************************************)
Inside ==
    /\ pc = "sampled"
    /\ RLt(p_out.t[1], p_q)
    /\ RLt(p_q, p_out.t[Len(p_out.t)])

\* the pair (k, k + 1), 1-based, with times[k] < q <= times[k + 1]
Bracket == CHOOSE k \in 1..(Len(p_out.t) - 1) :
               RLt(p_out.t[k], p_q) /\ RLe(p_q, p_out.t[k + 1])

C18_ShortcutBelowTol ==
    \A k \in 1..(Len(p_out.t) - 1) :
        Interior(k) =>
            LET gap == RSub(p_out.t[k + 1], p_out.t[k])
            IN  /\ RLe(R(TOL), gap)
                /\ \A j \in 1..(PoseEnd - 1) :
                      IsBlend(p_s[j], p_out.t[k], p_out.t[k + 1], p_q,
                              p_out.q[k][j], p_out.q[k + 1][j])

(***************************************************************************)
(* C19: a clear for an arm empties that arm's trajectory and binding       *)
(* cache and sets the stored scene time to 0.0, and changes nothing else:  *)
(* the scrub fraction, the other arm's trajectory and cache and every      *)
(* joint angle keep their values; the stored scene time changes otherwise  *)
(* only in a scrub update or a load that parses, which set it from the     *)
(* range of the trajectories then loaded.                                  *)
(***************************************************************************)
C19_ClearFrame ==
    [][/\ \A a \in Arms :
             ClearStep(a) =>
                 /\ TRAJ' = [TRAJ EXCEPT ![a] = NoTraj]
                 /\ ARMREFS' = [ARMREFS EXCEPT ![a] = NoRefs]
                 /\ scene' = [scene EXCEPT !.sa_time = R(0)]
                 /\ objects' = objects
                 /\ report'.result = "FINISHED"
       /\ scene'.sa_time # scene.sa_time =>
             \/ \E a \in Arms : ClearStep(a) \/ LoadedStep(a)
             \/ report'.op = <<"scrub">>
       /\ (report'.op = <<"scrub">> \/ \E a \in Arms : LoadedStep(a)) =>
             scene'.sa_time = ScrubTime(TRAJ', scene'.sa_scrub)]_vars

\* arm A was cleared with arm B loaded and the slider at 1: the stored time
\* is 0 and not the time of the slider, both arms keep their poses
C19_Witness ==
    /\ report.op = <<"clear", "A">>
    /\ Loaded(TRAJ) = {"B"}
    /\ ~ARMREFS["A"].cached
    /\ ARMREFS["B"].cached
    /\ scene.sa_scrub = R(1)
    /\ scene.sa_time = R(0)
    /\ scene.sa_time # ScrubTime(TRAJ, scene.sa_scrub)
    /\ Angle(1, ".001") # R(0)
    /\ Angle(1, ".002") = TRAJ["B"].q[Len(TRAJ["B"].q)][1]

====
